---- MODULE Spec2Model ----
\* Send-state machine of the Team Niwrutti bulk mailer (streamlit_app.py):
\* the session state, the Send / Stop / Resume / Retry handlers and the
\* dispatch loop send_bulk, one action per handler and per loop iteration.
\*
\* Strings are modelled as tuples of tokens: an address is a tuple of
\* characters, a name or a rendered text is a tuple of words and blanks.
\* The stop flag lives in the session state; Stop may set it while the loop
\* sleeps or waits on the transport, and the loop reads it at the top of each
\* iteration.
EXTENDS Integers, Sequences, FiniteSets, TLC

\* ---------------------------------------------------------------- bounds
MaxRows == 3          \* longest recipient table of Spec
MaxPasses == 3        \* handler invocations of send_bulk per session in Spec
MaxFailed == 2        \* transport failures per session in Spec
PacingRows == 7       \* length of the recipient tables of SpecPacing

\* ---------------------------------------------------------------- config
EMAILS_PER_BATCH == 5
BATCH_COOLDOWN == 120
DELAY_BETWEEN_EMAILS == 22

VARIABLES
    \* st.session_state
    stop_sending, sent_count, last_sent_index, resume_mode, failed_rows,
    \* operator inputs
    df, subject_tpl, body_tpl,
    \* send_bulk's frame
    pc, df_to_send, start_index, idx, sent_in_batch,
    \* observation of the environment: transport calls of the current pass,
    \* the fake clock advanced by time.sleep
    calls, clock,
    \* bookkeeping of the run: which handler started the pass, how it ended,
    \* the session state the handler found, remaining pass and failure budgets
    mode, outcome, prev, passes_left, failures_left,
    \* observation of the transport since the last fresh Send (or since the
    \* session began): successful calls, the full-table indexes delivered by
    \* Send and Resume passes, whether a Retry pass has run
    since_send

vars == <<stop_sending, sent_count, last_sent_index, resume_mode, failed_rows,
          df, subject_tpl, body_tpl, pc, df_to_send, start_index, idx,
          sent_in_batch, calls, clock, mode, outcome, prev, passes_left,
          failures_left, since_send>>

session == <<stop_sending, sent_count, last_sent_index, resume_mode, failed_rows>>
inputs == <<df, subject_tpl, body_tpl>>
frame == <<df_to_send, start_index, idx, sent_in_batch, calls, clock>>

\* ---------------------------------------------------------------- values
None == <<"None">>

\* an empty CSV cell, which pandas reads as the float NaN
NaN == <<"NaN">>

\* df is None until a CSV file is uploaded
NoDf == <<>>

Row(email, name) == ("email" :> email) @@ ("name" :> name)

RowAl == Row(<<"a", "@", "x">>, <<"Al", " ", "Pha">>)
RowBe == Row(<<"b", "a", "d">>, <<"Be", " ", "Ta">>)
RowGa == Row(<<"c", "@", "x">>, <<"Ga", " ", "Ma">>)
RowDe == Row(<<"D", " ", "<", "d", "@", "x", ">">>, <<"De">>)
RowEp == Row(<<"e", "@", "x", " ">>, <<" ", "Ep", " ", "Si", " ", "Lon">>)
RowBlank == Row(<<"d", "@", "x">>, NaN)
RowNoMail == Row(<<" ">>, <<"No">>)
RowNaN == Row(NaN, <<"Na">>)

\* the rows a table may hold at position i (1-based): the recipient of that
\* position, or a row of one of the defective kinds
ValidRows == <<RowAl, RowDe, RowGa, RowEp>>
ValidRow(i) == ValidRows[((i - 1) % Len(ValidRows)) + 1]

RowOf(kind, i) ==
    CASE kind = "valid" -> ValidRow(i)
      [] kind = "bad" -> RowBe
      [] kind = "empty" -> RowNoMail
      [] kind = "nan" -> RowNaN
      [] kind = "blank" -> RowBlank

Kinds == {"valid", "bad", "empty", "nan"}
PacingKinds == {"valid", "bad", "blank"}

Lit(s) == [k |-> "lit", v |-> s]
Field(f) == [k |-> "field", v |-> f]
Brace == [k |-> "brace", v |-> "{"]

SubjectTemplates == { <<Lit("Hi "), Field("name")>>, <<Lit("Hi "), Brace>> }
BodyTemplates == { <<Lit("Hello "), Field("name"), Field("city")>>,
                   <<Lit("Hello "), Field("name"), Brace>> }

\* ---------------------------------------------------------------- helpers
\* row.get(key, default)
Get(row, key, default) == IF key \in DOMAIN row THEN row[key] ELSE default

\* clean_value: strip() of a token string drops leading and trailing blanks
RECURSIVE LStrip(_)
LStrip(s) == IF s # <<>> /\ Head(s) = " " THEN LStrip(Tail(s)) ELSE s

RECURSIVE RStrip(_)
RStrip(s) == IF s # <<>> /\ s[Len(s)] = " " THEN RStrip(SubSeq(s, 1, Len(s) - 1)) ELSE s

clean_value(val) == IF val \in {None, NaN} THEN val ELSE LStrip(RStrip(val))

\* an uploaded table is <<rows>>, every cell passed through clean_value:
\* pd.read_csv(uploaded_file).applymap(clean_value)
Uploaded(rows) ==
    << [i \in 1..Len(rows) |-> [f \in DOMAIN rows[i] |-> clean_value(rows[i][f])]] >>

\* parseaddr: the address between "<" and ">" of "Display Name <addr>", or
\* the bare address; an empty address for a value that is no string
parseaddr(s) ==
    IF s = NaN THEN <<>>
    ELSE LET lt == {i \in 1..Len(s) : s[i] = "<"}
             open == CHOOSE i \in lt : \A j \in lt : i <= j
             gt == {i \in 1..Len(s) : s[i] = ">" /\ lt # {} /\ i > open}
             close == CHOOSE i \in gt : \A j \in gt : i <= j
         IN IF gt # {} THEN SubSeq(s, open + 1, close - 1) ELSE s

clean_email_address_unchecked(raw_email) ==
    IF raw_email = None \/ raw_email = <<>> THEN None
    ELSE parseaddr(clean_value(raw_email))

\* clean_email_address: None for a falsy input, else the parsed address when
\* it holds an "@" (parseaddr of a bare address is the address itself).
\* NaN is truthy and no string: parseaddr either raises TypeError (its
\* address parser takes len() of the value) or, where it checks the type,
\* returns an empty address; ParseaddrMayRaise marks that case.
ParseaddrMayRaise(raw_email) == raw_email = NaN

clean_email_address(raw_email) ==
    IF raw_email = None \/ raw_email = <<>> THEN None
    ELSE LET addr == parseaddr(clean_value(raw_email))
         IN IF \E i \in 1..Len(addr) : addr[i] = "@" THEN addr ELSE None

\* str.split(): the maximal runs of non-blank tokens (names are tokenised by
\* word, so every non-blank token is one word)
split(s) == SelectSeq(s, LAMBDA w : w # " ")

\* get_first_name raises AttributeError on NaN (an empty name cell), which
\* is truthy and has no strip(), and IndexError on a name of blanks only
FirstNameRaises(full_name) ==
    \/ full_name = NaN
    \/ full_name # <<>> /\ split(LStrip(RStrip(full_name))) = <<>>

get_first_name(full_name) ==
    IF full_name = <<>> THEN <<>> ELSE <<split(LStrip(RStrip(full_name)))[1]>>

\* safe_format: format_map over defaultdict(str, mapping); an unbalanced
\* brace raises ValueError
FormatRaises(template) == \E i \in 1..Len(template) : template[i].k = "brace"

RECURSIVE safe_format(_, _)
safe_format(template, mapping) ==
    IF template = <<>> THEN <<>>
    ELSE LET t == Head(template)
             piece == IF t.k = "lit" THEN <<t.v>> ELSE Get(mapping, t.v, <<>>)
         IN piece \o safe_format(Tail(template), mapping)

\* body_row = dict(row); body_row["name"] = get_first_name(row.get("name", ""))
body_row(row) ==
    [f \in DOMAIN row \cup {"name"} |->
        IF f = "name" THEN get_first_name(Get(row, "name", <<>>)) ELSE row[f]]

\* subject = safe_format(subject_tpl, row)
Subject(row) == safe_format(subject_tpl, row)

\* body_text = safe_format(body_tpl, body_row)
BodyText(row) == safe_format(body_tpl, body_row(row))

\* an exception raised between lines 142 and 147, outside the try block
RenderRaises(row) ==
    \/ FormatRaises(subject_tpl)
    \/ FirstNameRaises(Get(row, "name", <<>>))
    \/ FormatRaises(body_tpl)

FailedRowErrorOnly(row, e) == "__error" :> e

\* {**row, "__error": str(e)}
FailedRow(row, e) ==
    [f \in DOMAIN row \cup {"__error"} |-> IF f = "__error" THEN e ELSE row[f]]

StartIndexAtCursor(resume, last) == IF resume /\ last >= 0 THEN last ELSE 0
StartIndexZero(resume, last) == 0

\* start_index of send_bulk
StartIndex(resume, last) == IF resume THEN last + 1 ELSE 0

FullTable(rows) == df[1]

\* failed_df = pd.DataFrame(st.session_state.failed_rows)
FailedDf(rows) == rows

TransportErrors == {"SMTPException"}

\* ---------------------------------------------------------------- initial states
TablesOver(kinds, m) == { [i \in 1..m |-> RowOf(k[i], i)] : k \in [1..m -> kinds] }
Tables(n) == UNION { TablesOver(Kinds, m) : m \in 0..n }

\* a fresh session, before any pass: what a handler finds that has nothing
\* to resume or retry
Nothing == [mode |-> "none", outcome |-> "none", last_sent_index |-> -1,
            failed_rows |-> <<>>]

NothingSent == [ok |-> 0, rows |-> <<>>, retried |-> FALSE]

FreshSessionKeepsFailed ==
    [sent_count |-> 0, last_sent_index |-> -1, failed_rows |-> failed_rows,
     resume_mode |-> FALSE, stop_sending |-> FALSE]

FreshSessionKeepsCount ==
    [sent_count |-> sent_count, last_sent_index |-> -1, failed_rows |-> <<>>,
     resume_mode |-> FALSE, stop_sending |-> FALSE]

\* the session state a fresh Send writes before the loop runs
FreshSession ==
    [sent_count |-> 0, last_sent_index |-> -1, failed_rows |-> <<>>,
     resume_mode |-> FALSE, stop_sending |-> FALSE]

InitSession ==
    /\ stop_sending = FALSE
    /\ sent_count = 0
    /\ last_sent_index = -1
    /\ resume_mode = FALSE
    /\ failed_rows = <<>>

InitFrame ==
    /\ pc = "idle"
    /\ df_to_send = <<>>
    /\ start_index = 0
    /\ idx = 0
    /\ sent_in_batch = 0
    /\ calls = <<>>
    /\ clock = 0
    /\ mode = "none"
    /\ outcome = "none"
    /\ prev = Nothing
    /\ since_send = NothingSent

Init ==
    /\ InitSession
    /\ InitFrame
    /\ df \in {Uploaded(t) : t \in Tables(MaxRows)} \cup {NoDf}
    /\ subject_tpl \in SubjectTemplates
    /\ body_tpl \in BodyTemplates
    /\ passes_left = MaxPasses
    /\ failures_left = MaxFailed

InitPacing ==
    /\ InitSession
    /\ InitFrame
    /\ df \in {Uploaded(t) : t \in TablesOver(PacingKinds, PacingRows)}
    /\ subject_tpl \in SubjectTemplates
    /\ body_tpl \in BodyTemplates
    /\ passes_left = 1
    /\ failures_left = PacingRows

\* ---------------------------------------------------------------- handlers
\* what the handler found when it was triggered: the pass before it and how
\* it ended, the resume cursor, and the failed rows listed for retrying
Found(listed) == [mode |-> mode, outcome |-> outcome,
                  last_sent_index |-> last_sent_index, failed_rows |-> listed]

\* entry of send_bulk(table, resume) with the cursor at last
Enter(table, resume, last) ==
    /\ pc' = "sending"
    /\ df_to_send' = table
    /\ start_index' = StartIndex(resume, last)
    /\ idx' = StartIndex(resume, last)
    /\ sent_in_batch' = 0
    /\ calls' = <<>>
    /\ clock' = 0
    /\ outcome' = "running"

NotRun ==
    /\ outcome' = "notrun"
    /\ UNCHANGED <<pc, frame>>

\* if stop_btn: (a rerun of the script, or a click while the loop runs)
Stop ==
    /\ stop_sending' = TRUE
    /\ UNCHANGED <<sent_count, last_sent_index, resume_mode, failed_rows>>
    /\ UNCHANGED <<inputs, pc, frame, mode, outcome, prev, passes_left, failures_left,
                   since_send>>

\* if send_btn: ... ; if (send_btn or resume_btn) and df is not None
Send ==
    /\ pc = "idle"
    /\ passes_left > 0
    /\ sent_count' = FreshSession.sent_count
    /\ last_sent_index' = FreshSession.last_sent_index
    /\ failed_rows' = FreshSession.failed_rows
    /\ resume_mode' = FreshSession.resume_mode
    /\ stop_sending' = FreshSession.stop_sending
    /\ mode' = "send"
    /\ prev' = Nothing
    /\ since_send' = NothingSent
    /\ passes_left' = passes_left - 1
    /\ UNCHANGED failures_left
    /\ IF df # NoDf
          THEN Enter(df[1], FreshSession.resume_mode, FreshSession.last_sent_index)
          ELSE NotRun
    /\ UNCHANGED inputs

\* if resume_btn: ... ; if (send_btn or resume_btn) and df is not None
Resume ==
    /\ pc = "idle"
    /\ passes_left > 0
    /\ resume_mode' = TRUE
    /\ stop_sending' = FALSE
    /\ mode' = "resume"
    /\ prev' = Found(<<>>)
    /\ passes_left' = passes_left - 1
    /\ UNCHANGED <<failures_left, since_send>>
    /\ IF df # NoDf THEN Enter(df[1], TRUE, last_sent_index) ELSE NotRun
    /\ UNCHANGED <<sent_count, last_sent_index, failed_rows, inputs>>

\* if st.session_state.failed_rows: ... if st.button("Retry Failed Emails Only")
Retry ==
    /\ pc = "idle"
    /\ passes_left > 0
    /\ failed_rows # <<>>
    /\ stop_sending' = FALSE
    /\ last_sent_index' = -1
    /\ mode' = "retry"
    /\ prev' = Found(failed_rows)
    /\ since_send' = [since_send EXCEPT !.retried = TRUE]
    /\ passes_left' = passes_left - 1
    /\ UNCHANGED failures_left
    /\ Enter(FailedDf(failed_rows), FALSE, -1)
    /\ UNCHANGED <<sent_count, resume_mode, failed_rows, inputs>>

\* ---------------------------------------------------------------- send_bulk
total == Len(df_to_send)
row == df_to_send[idx + 1]
recip == clean_email_address(Get(row, "email", None))

Leave(how) ==
    /\ pc' = "idle"
    /\ outcome' = how
    /\ UNCHANGED <<session, inputs, frame, mode, prev, passes_left, failures_left,
                   since_send>>

\* if st.session_state.stop_sending: (read at the top of the iteration)
StopIgnored == FALSE
StopObserved == stop_sending

\* range(start_index, total) is exhausted
LoopEnd ==
    /\ pc = "sending"
    /\ idx >= total
    /\ Leave("completed")

\* if st.session_state.stop_sending: break
LoopStop ==
    /\ pc = "sending"
    /\ idx < total
    /\ StopObserved
    /\ Leave("stopped")

\* if not recip: continue
LoopSkip ==
    /\ pc = "sending"
    /\ idx < total
    /\ ~StopObserved
    /\ recip = None
    /\ idx' = idx + 1
    /\ UNCHANGED <<session, inputs, pc, df_to_send, start_index, sent_in_batch,
                   calls, clock, mode, outcome, prev, passes_left, failures_left,
                   since_send>>

\* parseaddr, safe_format or get_first_name raises before the try block: the
\* exception leaves send_bulk and ends the script run
LoopRaise ==
    /\ pc = "sending"
    /\ idx < total
    /\ ~StopObserved
    /\ \/ ParseaddrMayRaise(Get(row, "email", None))
       \/ recip # None /\ RenderRaises(row)
    /\ Leave("raised")

CoolsDownLate(batch) == batch > EMAILS_PER_BATCH

\* the pause after a transport call: time.sleep(DELAY_BETWEEN_EMAILS), then
\* the batch cooldown when the within-batch counter has reached the batch size
CoolsDown(batch) == batch >= EMAILS_PER_BATCH

PauseCooldownOnly(batch) ==
    /\ clock' = clock + (IF CoolsDown(batch) THEN BATCH_COOLDOWN ELSE 0)
    /\ sent_in_batch' = IF CoolsDown(batch) THEN 0 ELSE batch

Pause(batch) ==
    /\ clock' = clock + DELAY_BETWEEN_EMAILS
                 + (IF CoolsDown(batch) THEN BATCH_COOLDOWN ELSE 0)
    /\ sent_in_batch' = IF CoolsDown(batch) THEN 0 ELSE batch

Call(ok, batch) ==
    [idx |-> idx, row |-> row, to |-> recip, subject |-> Subject(row),
     body |-> BodyText(row), ok |-> ok, t |-> clock, cooldown |-> CoolsDown(batch)]

RecordLatestOnly(rows, entry) == <<entry>>
RecordUnlessListed(rows, entry) ==
    IF \E i \in 1..Len(rows) : rows[i] = entry THEN rows ELSE Append(rows, entry)

\* st.session_state.failed_rows.append(...)
Record(rows, entry) == Append(rows, entry)

BatchResetOnFailure(batch) == 0

\* within-batch counter after a failed transport call
BatchAfterFailure(batch) == batch

\* the try block succeeds
LoopSent ==
    /\ pc = "sending"
    /\ idx < total
    /\ ~StopObserved
    /\ recip # None
    /\ ~RenderRaises(row)
    /\ sent_count' = sent_count + 1
    /\ last_sent_index' = idx
    /\ calls' = Append(calls, Call(TRUE, sent_in_batch + 1))
    /\ Pause(sent_in_batch + 1)
    /\ idx' = idx + 1
    /\ since_send' = [since_send EXCEPT
                        !.ok = @ + 1,
                        !.rows = IF mode = "retry" THEN @ ELSE Append(@, idx)]
    /\ UNCHANGED <<stop_sending, resume_mode, failed_rows, inputs, pc, df_to_send,
                   start_index, mode, outcome, prev, passes_left, failures_left>>

\* the try block raises: except Exception as e
LoopFailed ==
    /\ pc = "sending"
    /\ idx < total
    /\ ~StopObserved
    /\ recip # None
    /\ ~RenderRaises(row)
    /\ failures_left > 0
    /\ failures_left' = failures_left - 1
    /\ \E e \in TransportErrors :
          failed_rows' = Record(failed_rows, FailedRow(row, e))
    /\ calls' = Append(calls, Call(FALSE, BatchAfterFailure(sent_in_batch)))
    /\ Pause(BatchAfterFailure(sent_in_batch))
    /\ idx' = idx + 1
    /\ UNCHANGED <<stop_sending, sent_count, last_sent_index, resume_mode, inputs,
                   pc, df_to_send, start_index, mode, outcome, prev, passes_left,
                   since_send>>

Next == Stop \/ Send \/ Resume \/ Retry \/ LoopEnd \/ LoopStop \/ LoopSkip
        \/ LoopRaise \/ LoopSent \/ LoopFailed

NextPacing == Stop \/ Send \/ LoopEnd \/ LoopStop \/ LoopSkip \/ LoopRaise
              \/ LoopSent \/ LoopFailed

Spec == Init /\ [][Next]_vars

SpecPacing == InitPacing /\ [][NextPacing]_vars

\* ---------------------------------------------------------------- properties
\* a step of the dispatch loop (not a click of Stop)
LoopStep == pc = "sending" /\ (idx' # idx \/ pc' # pc)

\* the step is a transport call, and ok tells how it ended
CallStep(ok) == /\ pc = "sending"
                /\ Len(calls') = Len(calls) + 1
                /\ calls'[Len(calls')].ok = ok

\* the row's address is missing, empty or holds no "@"
NoAt(r) == \/ "email" \notin DOMAIN r
           \/ \A i \in 1..Len(r["email"]) : r["email"][i] # "@"

\* number of successful transport calls among the first i of the pass
OkCount(i) == Cardinality({j \in 1..i : calls[j].ok})

\* C1: a Resume that follows a Send pass halted by the stop flag with
\* last_sent_index = k examines row k+1 first and passes no row with
\* index <= k to the transport.
C1_ResumeAfterStop ==
    (mode = "resume" /\ prev.mode = "send" /\ prev.outcome = "stopped") =>
        /\ start_index = prev.last_sent_index + 1
        /\ idx >= start_index
        /\ \A i \in 1..Len(calls) : calls[i].idx > prev.last_sent_index

C1_Witness ==
    /\ mode = "resume" /\ prev.mode = "send" /\ prev.outcome = "stopped"
    /\ prev.last_sent_index >= 0
    /\ Len(calls) > 0

\* C2: when a Retry pass has ended, last_sent_index is the index into the
\* full table that it was when Retry was triggered.
C2_RetryKeepsCursor ==
    (mode = "retry" /\ pc = "idle") => last_sent_index = prev.last_sent_index

\* C3: a Retry pass attempts only the rows that were in failed_rows when
\* Retry was triggered, at most once each, in list order from the first
\* entry; rows appended during the pass are not attempted.
C3_RetryOnlySnapshot ==
    mode = "retry" =>
        /\ df_to_send = prev.failed_rows
        /\ start_index = 0
        /\ \A i \in 1..Len(calls) :
              /\ calls[i].idx \in 0..(Len(prev.failed_rows) - 1)
              /\ calls[i].row = prev.failed_rows[calls[i].idx + 1]
              /\ \A j \in 1..(i - 1) : calls[j].idx < calls[i].idx

C3_Witness ==
    /\ mode = "retry" /\ outcome = "completed"
    /\ Len(calls) = Len(prev.failed_rows)
    /\ Len(failed_rows) > Len(prev.failed_rows)

\* C4: a template rendering error on a row is a per-row failure: the row is
\* appended to failed_rows, last_sent_index and sent_count stay, and the loop
\* goes on to the next row.
C4_TemplateErrorPerRow ==
    [][(/\ LoopStep
        /\ idx < total /\ ~stop_sending /\ ~NoAt(row)
        /\ (FormatRaises(subject_tpl) \/ FormatRaises(body_tpl)))
       => (/\ Len(failed_rows') = Len(failed_rows) + 1
           /\ last_sent_index' = last_sent_index
           /\ sent_count' = sent_count
           /\ pc' = "sending"
           /\ idx' = idx + 1)]_vars

\* C5: a transport failure on row i appends exactly one entry, row i plus an
\* error description, to the end of failed_rows, leaves sent_count and
\* last_sent_index alone and moves the loop to row i+1 without ending it.
C5_FailurePerRow ==
    [][CallStep(FALSE) =>
         (/\ Len(failed_rows') = Len(failed_rows) + 1
          /\ SubSeq(failed_rows', 1, Len(failed_rows)) = failed_rows
          /\ LET e == failed_rows'[Len(failed_rows')]
             IN /\ DOMAIN e = DOMAIN row \cup {"__error"}
                /\ e["__error"] \in TransportErrors
                /\ \A f \in DOMAIN row \ {"__error"} : e[f] = row[f]
          /\ sent_count' = sent_count
          /\ last_sent_index' = last_sent_index
          /\ pc' = "sending"
          /\ idx' = idx + 1)]_vars

C5_Witness ==
    /\ pc = "sending" /\ idx < total
    /\ Len(calls) > 0 /\ ~calls[Len(calls)].ok /\ calls[Len(calls)].idx = idx - 1
    /\ sent_count > 0

\* C6: a row whose address is missing or holds no "@" is never passed to the
\* transport, and the loop step that meets it changes neither sent_count,
\* last_sent_index, failed_rows nor the within-batch counter.
C6_InvalidRowSkipped ==
    /\ [](\A i \in 1..Len(calls) : ~NoAt(calls[i].row))
    /\ [][(LoopStep /\ idx < total /\ NoAt(row)) =>
            UNCHANGED <<sent_count, last_sent_index, failed_rows, sent_in_batch,
                        calls, clock>>]_vars

C6_Witness ==
    /\ pc = "sending" /\ idx > start_index
    /\ NoAt(df_to_send[idx])
    /\ Len(calls) > 0 /\ calls[Len(calls)].idx < idx - 1

\* C7: while the dispatch loop runs, last_sent_index never decreases, and it
\* changes only at a successful transport of row idx, to idx.
C7_CursorMonotone ==
    [][pc = "sending" =>
         /\ last_sent_index' >= last_sent_index
         /\ last_sent_index' # last_sent_index =>
               (CallStep(TRUE) /\ last_sent_index' = idx)]_vars

C7_Witness ==
    /\ mode = "resume" /\ pc = "sending"
    /\ prev.last_sent_index >= 0
    /\ last_sent_index > prev.last_sent_index
    /\ failed_rows # <<>>

\* C8: when the loop reaches a row with the stop flag set it halts there
\* with no transport call and with sent_count, last_sent_index and
\* failed_rows as they were; the flag stays set until Send, Resume or Retry
\* clears it.
C8_CooperativeStop ==
    /\ [][(pc = "sending" /\ idx < total /\ stop_sending) =>
            (/\ pc' = "idle"
             /\ UNCHANGED <<sent_count, last_sent_index, failed_rows, calls,
                            stop_sending, idx>>)]_vars
    /\ [][(stop_sending /\ ~stop_sending') =>
            (pc = "idle" /\ mode' \in {"send", "resume", "retry"}
             /\ passes_left' = passes_left - 1)]_vars
    /\ [](outcome = "stopped" => \A i \in 1..Len(calls) : calls[i].idx < idx)

C8_Witness ==
    /\ pc = "idle" /\ outcome = "stopped" /\ stop_sending
    /\ idx < total
    /\ Len(calls) > 0

\* C9 as stated: a batch cooldown is taken after a transport call exactly
\* when that call ends a run of 5 consecutive successful calls that holds no
\* earlier cooldown.
C9_ConsecutiveRuns ==
    \A i \in 1..Len(calls) :
        calls[i].cooldown <=>
            /\ i >= EMAILS_PER_BATCH
            /\ \A j \in (i - EMAILS_PER_BATCH + 1)..i : calls[j].ok
            /\ \A j \in (i - EMAILS_PER_BATCH + 1)..(i - 1) : ~calls[j].cooldown

\* C9 as amended: a batch cooldown is taken after a transport call exactly
\* when it is the 5th successful call since the previous cooldown or since
\* the invocation began, failed and skipped rows in between not counted; the
\* next call comes no sooner than the inter-message delay plus the cooldown,
\* and the within-batch counter restarts at 0.
C9_BatchPacing ==
    /\ \A i \in 1..Len(calls) :
          /\ calls[i].cooldown <=>
                (calls[i].ok /\ OkCount(i) % EMAILS_PER_BATCH = 0)
          /\ i > 1 =>
                calls[i].t = calls[i - 1].t + DELAY_BETWEEN_EMAILS
                    + (IF calls[i - 1].cooldown THEN BATCH_COOLDOWN ELSE 0)
    /\ sent_in_batch = OkCount(Len(calls)) % EMAILS_PER_BATCH

C9_Witness ==
    \E i \in 1..Len(calls) :
        /\ calls[i].cooldown
        /\ \E j \in 1..i : ~calls[j].ok
        /\ Len(calls) > i
        /\ calls[i + 1].ok

\* C10: the subject and the body handed to the transport are both rendered
\* with the name field replaced by its first whitespace-delimited token.
C10_FirstNameInSubjectAndBody ==
    \A i \in 1..Len(calls) :
        /\ calls[i].subject = safe_format(subject_tpl, body_row(calls[i].row))
        /\ calls[i].body = safe_format(body_tpl, body_row(calls[i].row))

\* a step of the Send handler
SendStep == pc = "idle" /\ mode' = "send" /\ passes_left' = passes_left - 1

\* a step of the Retry handler
RetryStep == pc = "idle" /\ mode' = "retry" /\ passes_left' = passes_left - 1

\* the 0-based indexes of the rows of table t that hold an address with "@"
ValidIdx(t) == {i \in 0..(Len(t) - 1) : ~NoAt(t[i + 1])}

\* the largest element of a set of indexes, -1 for the empty set
MaxOr(S) == IF S = {} THEN -1 ELSE CHOOSE m \in S : \A n \in S : n <= m

\* C11: a Send pass during which the transport never fails and Stop is never
\* requested ends with exactly one transport call per valid-address row, in
\* table order, none for the other rows, sent_count the number of
\* valid-address rows, failed_rows empty and last_sent_index the index of the
\* last valid-address row (-1 if there is none).
C11_FreshSendDeliversAll ==
    (/\ mode = "send" /\ pc = "idle" /\ outcome # "notrun"
     /\ ~stop_sending
     /\ \A i \in 1..Len(calls) : calls[i].ok)
    => /\ {calls[i].idx : i \in 1..Len(calls)} = ValidIdx(df[1])
       /\ Len(calls) = Cardinality(ValidIdx(df[1]))
       /\ \A i \in 1..Len(calls), j \in 1..Len(calls) :
             i < j => calls[i].idx < calls[j].idx
       /\ sent_count = Cardinality(ValidIdx(df[1]))
       /\ failed_rows = <<>>
       /\ last_sent_index = MaxOr(ValidIdx(df[1]))

\* C12: Send, from whatever state it is triggered, sets sent_count to 0,
\* last_sent_index to -1, failed_rows to empty, resume_mode and the stop
\* flag to false, and the loop it starts is at row 0 of the full table.
C12_SendResets ==
    [][SendStep =>
         /\ sent_count' = 0
         /\ last_sent_index' = -1
         /\ failed_rows' = <<>>
         /\ resume_mode' = FALSE
         /\ stop_sending' = FALSE
         /\ df # NoDf =>
               (/\ pc' = "sending"
                /\ df_to_send' = df[1]
                /\ start_index' = 0
                /\ idx' = 0
                /\ calls' = <<>>)]_vars

C12_Witness ==
    /\ mode = "send" /\ pc = "sending" /\ idx = 0
    /\ prev = Nothing /\ since_send = NothingSent
    /\ passes_left = MaxPasses - 2
    /\ failures_left < MaxFailed
    /\ failed_rows = <<>> /\ sent_count = 0 /\ last_sent_index = -1

\* C13: every step other than a fresh Send keeps the previous contents of
\* failed_rows as a prefix of the list, so its length never decreases.
C13_FailedRowsAppendOnly ==
    [][~SendStep =>
         /\ Len(failed_rows') >= Len(failed_rows)
         /\ SubSeq(failed_rows', 1, Len(failed_rows)) = failed_rows]_vars

C13_Witness ==
    /\ mode = "retry" /\ pc = "idle"
    /\ since_send.retried
    /\ Len(prev.failed_rows) >= 1
    /\ Len(failed_rows) > Len(prev.failed_rows)
    /\ stop_sending

\* C14: an invocation of the dispatch loop ends either completed, with
\* every index up to the last one visited, or stopped, at an iteration that
\* found the stop flag set; there is no other exit, and no row is visited
\* twice.
C14_OnlyTwoExits ==
    /\ (pc = "idle" /\ outcome \notin {"none", "notrun"}) =>
          \/ outcome = "completed" /\ idx >= total
          \/ outcome = "stopped" /\ stop_sending /\ idx < total
    /\ \A i \in 1..Len(calls), j \in 1..Len(calls) :
          i < j => calls[i].idx < calls[j].idx

\* C15: a Retry pass keeps every entry that was in failed_rows when it was
\* triggered: a row that fails again is appended a second time, a row that
\* succeeds stays listed, and the next Retry walks the whole list again.
C15_RetryKeepsEntries ==
    /\ [](mode = "retry" =>
            /\ Len(failed_rows) =
                  Len(prev.failed_rows) + Len(calls) - OkCount(Len(calls))
            /\ SubSeq(failed_rows, 1, Len(prev.failed_rows)) = prev.failed_rows
            /\ \A i \in 1..Len(calls) :
                  ~calls[i].ok =>
                      /\ failed_rows[Len(prev.failed_rows) + i - OkCount(i)]
                            = prev.failed_rows[calls[i].idx + 1]
                      /\ Cardinality({n \in 1..Len(failed_rows) :
                            failed_rows[n] = prev.failed_rows[calls[i].idx + 1]}) >= 2)
    /\ [][(RetryStep /\ mode = "retry") =>
            /\ Len(df_to_send') >= Len(df_to_send)
            /\ SubSeq(df_to_send', 1, Len(df_to_send)) = df_to_send]_vars

C15_Witness ==
    /\ mode = "retry" /\ prev.mode = "retry"
    /\ Len(df[1]) = 1
    /\ Len(failed_rows) = 1
    /\ sent_count = 2
    /\ Len(calls) = 1 /\ calls[1].ok

\* C16: after every transport call, successful or failed, the loop pauses
\* for the inter-message delay before it examines the next row, so two
\* consecutive calls of one invocation are at least that delay apart.
C16_InterMessageDelay ==
    /\ \A i \in 2..Len(calls) :
          calls[i].t >= calls[i - 1].t + DELAY_BETWEEN_EMAILS
    /\ Len(calls) > 0 => clock >= calls[Len(calls)].t + DELAY_BETWEEN_EMAILS

C16_Witness ==
    /\ Len(calls) >= 2
    /\ ~calls[1].ok /\ calls[2].ok
    /\ calls[2].t = calls[1].t + DELAY_BETWEEN_EMAILS

\* C17: sent_count is the number of successful transport calls since the
\* most recent fresh Send (or since the session began), Resume and Retry
\* passes included, and only Send ever lowers it.
C17_SentCountCountsSuccesses ==
    /\ [](sent_count = since_send.ok)
    /\ [][~SendStep => sent_count' >= sent_count]_vars

C17_Witness ==
    /\ mode = "retry" /\ since_send.retried
    /\ Len(since_send.rows) >= 1
    /\ sent_count > Len(since_send.rows)
    /\ passes_left = MaxPasses - 3

\* C18: while no Retry has run since the last fresh Send, no index of the
\* table has been delivered twice, and every index delivered is at most
\* last_sent_index.
C18_NoIndexDeliveredTwice ==
    ~since_send.retried =>
        /\ \A i \in 1..Len(since_send.rows), j \in 1..Len(since_send.rows) :
              i # j => since_send.rows[i] # since_send.rows[j]
        /\ \A i \in 1..Len(since_send.rows) : since_send.rows[i] <= last_sent_index

C18_Witness ==
    /\ ~since_send.retried /\ mode = "resume" /\ prev.mode = "resume"
    /\ OkCount(Len(calls)) >= 1
    /\ Len(since_send.rows) > OkCount(Len(calls))

\* successful calls among calls i..j of the pass
OkBetween(i, j) == Cardinality({n \in i..j : calls[n].ok})

\* the last call before call i that was followed by a batch cooldown, 0 if none
PrevCooldown(i) == MaxOr({n \in 1..(i - 1) : calls[n].cooldown} \cup {0})

\* C19: the within-batch counter stays in 0..5, no more than 5 successful
\* calls are made without a batch cooldown between them, and a cooldown
\* follows a call exactly when the successes since the previous cooldown
\* (or since the invocation began) reach 5 with it.
C19_BatchCounterBounded ==
    /\ sent_in_batch \in 0..EMAILS_PER_BATCH
    /\ \A i \in 1..Len(calls), j \in 1..Len(calls) :
          (i <= j /\ \A n \in i..(j - 1) : ~calls[n].cooldown)
              => OkBetween(i, j) <= EMAILS_PER_BATCH
    /\ \A i \in 1..Len(calls) :
          calls[i].cooldown <=>
              (calls[i].ok /\ OkBetween(PrevCooldown(i) + 1, i) = EMAILS_PER_BATCH)

C19_Witness ==
    \E i \in 1..Len(calls) :
        /\ calls[i].cooldown
        /\ calls[i].idx > i - 1
        /\ \E j \in 1..i : ~calls[j].ok
        /\ sent_in_batch = 0 /\ Len(calls) = i

====
